---- MODULE Spec2Model ----
(***************************************************************************)
(* Model of the two scripts of the repository:                             *)
(*   - render_script.py: import a model into the host scene, join the      *)
(*     meshes, normalise the size, recentre, light, render a turntable,    *)
(*     save the scene;                                                     *)
(*   - example.py: image-to-3D inference followed by five exports.         *)
(* Strings are sequences of one-character strings, so that splitext,       *)
(* basename, join and the {angle:03d} format are computed, not assumed.    *)
(* Blender stores coordinates, scales and locations as binary floating     *)
(* point numbers; they are modelled as floats of Prec significant bits     *)
(* with round-to-nearest-even after every operation.                       *)
(***************************************************************************)
EXTENDS Integers, Sequences, FiniteSets, TLC

VARIABLES
    argv,         \* sys.argv, a sequence of strings
    fs,           \* the paths that exist on disk
    file_objs,    \* the objects the model file holds (what an import brings in)
    scene,        \* bpy.context.scene.objects, in link order
    model_path,   \* result of get_model_path_from_args: the path
    model_name,   \* result of get_model_path_from_args: the name
    combined,     \* combined_object: its index in scene, 0 for None
    target_size,  \* normalize_model_size's target_size
    output_dir,   \* render_views' output_dir
    angle_step,   \* render_views' angle_step
    distance,     \* render_views' distance
    angle_deg,    \* render_views' loop variable
    camera,       \* pose of the scene camera: [dist, angle], facing the origin
    filepath,     \* bpy.context.scene.render.filepath
    frames,       \* the frame files the host renderer wrote, in order
    saved,        \* the scene files the host saved, in order
    out,          \* console messages, in order
    err,          \* the exception that ended the run, "" for none
    pc,           \* position in render_script.py
    trace,        \* history: the procedures entered, in order
    imports,      \* history: the host importers load_3Dmodel invoked
    pre,          \* history: the scene as it was when the last procedure was entered
    ex            \* example.py: [pc, cwd, exists, lens, files, err]

vars == <<argv, fs, file_objs, scene, model_path, model_name, combined,
          target_size, output_dir, angle_step, distance, angle_deg, camera,
          filepath, frames, saved, out, err, pc, trace, imports, pre, ex>>

----------------------------------------------------------------------------
(* Bounds of the model *)

\* significant bits of a float (24 in the host's single precision)
Prec == 8
\* most frames a render_views call of the harness may produce
MaxFrames == 45
\* most files the model directory holds
MaxFiles == 2
\* longest list pipeline.run returns per representation
MaxOut == 2

----------------------------------------------------------------------------
(* Floating point: <<m, e>> stands for m * 2^e, m = 0 or m odd, |m| < 2^Prec *)

Pow2(n) == 2 ^ n

Abs(n) == IF n < 0 THEN -n ELSE n

Sgn(n) == IF n < 0 THEN -1 ELSE IF n > 0 THEN 1 ELSE 0

RECURSIVE BitLen(_)
BitLen(n) == IF n = 0 THEN 0 ELSE 1 + BitLen(n \div 2)

\* canonical form of m * 2^e
RECURSIVE Norm(_, _)
Norm(m, e) ==
    IF m = 0 THEN <<0, 0>>
    ELSE IF Abs(m) % 2 = 0 THEN Norm(Sgn(m) * (Abs(m) \div 2), e + 1)
    ELSE <<m, e>>

\* n * 2^e (n >= 0, sticky: some non-zero bits lie below n) rounded to Prec
\* significant bits, ties to even
RoundNat(n, e, sticky) ==
    LET k    == BitLen(n) - Prec
    IN  IF k <= 0 THEN Norm(n, e)
        ELSE LET top  == n \div Pow2(k)
                 r    == n % Pow2(k)
                 half == Pow2(k - 1)
                 up   == \/ r > half
                         \/ r = half /\ sticky
                         \/ r = half /\ ~sticky /\ top % 2 = 1
             IN  Norm(IF up THEN top + 1 ELSE top, e + k)

FNeg(a) == <<-a[1], a[2]>>

FAbs(a) == <<Abs(a[1]), a[2]>>

FRound(m, e) ==
    LET r == RoundNat(Abs(m), e, FALSE) IN <<Sgn(m) * r[1], r[2]>>

FMul(a, b) == FRound(a[1] * b[1], a[2] + b[2])

FMin2(x, y) == IF x < y THEN x ELSE y

\* the exact integer a / 2^e for an exponent e not above a's
Aligned(a, e) == a[1] * Pow2(a[2] - e)

FAdd(a, b) ==
    IF a[1] = 0 THEN b
    ELSE IF b[1] = 0 THEN a
    ELSE LET e == FMin2(a[2], b[2])
         IN  FRound(Aligned(a, e) + Aligned(b, e), e)

FSub(a, b) == FAdd(a, FNeg(b))

\* a / b for b # 0
FDiv(a, b) ==
    IF a[1] = 0 THEN <<0, 0>>
    ELSE LET sh == 2 * Prec + 1
             n  == Abs(a[1]) * Pow2(sh)
             q  == n \div Abs(b[1])
             r  == RoundNat(q, a[2] - b[2] - sh, n % Abs(b[1]) # 0)
         IN  <<Sgn(a[1]) * Sgn(b[1]) * r[1], r[2]>>

\* a - b as an exact integer multiple of 2^min(exponents): its sign orders a, b
Cmp(a, b) ==
    LET e == IF a[1] = 0 THEN b[2] ELSE IF b[1] = 0 THEN a[2] ELSE FMin2(a[2], b[2])
    IN  (IF a[1] = 0 THEN 0 ELSE Aligned(a, e)) - (IF b[1] = 0 THEN 0 ELSE Aligned(b, e))

FLe(a, b) == Cmp(a, b) <= 0

FMax(a, b) == IF FLe(a, b) THEN b ELSE a

FMin(a, b) == IF FLe(a, b) THEN a ELSE b

FZero == <<0, 0>>

FOne == <<1, 0>>

\* an integer that fits a float exactly
F(n) == Norm(n, 0)

----------------------------------------------------------------------------
(* Strings: sequences of one-character strings *)

RECURSIVE Flatten(_)
Flatten(ss) == IF ss = <<>> THEN <<>> ELSE Head(ss) \o Flatten(Tail(ss))

\* last index of character c in s, 0 when absent (str.rfind, 1-based)
RECURSIVE RFind(_, _)
RFind(s, c) ==
    IF s = <<>> THEN 0
    ELSE IF s[Len(s)] = c THEN Len(s)
    ELSE RFind(SubSeq(s, 1, Len(s) - 1), c)

\* first index of element x in sequence q, 0 when absent (list.index)
RECURSIVE IndexOf(_, _)
IndexOf(q, x) ==
    IF q = <<>> THEN 0
    ELSE IF Head(q) = x THEN 1
    ELSE LET i == IndexOf(Tail(q), x) IN IF i = 0 THEN 0 ELSE i + 1

Upper == <<"A", "B", "C", "D", "E", "F", "G", "H", "I", "J", "K", "L", "M",
           "N", "O", "P", "Q", "R", "S", "T", "U", "V", "W", "X", "Y", "Z">>

Lower == <<"a", "b", "c", "d", "e", "f", "g", "h", "i", "j", "k", "l", "m",
           "n", "o", "p", "q", "r", "s", "t", "u", "v", "w", "x", "y", "z">>

\* str.lower
StrLower(s) ==
    [i \in 1..Len(s) |->
        IF IndexOf(Upper, s[i]) = 0 THEN s[i] ELSE Lower[IndexOf(Upper, s[i])]]

\* os.path.basename
Basename(p) == SubSeq(p, RFind(p, "/") + 1, Len(p))

\* os.path.splitext: the extension starts at the last dot of the last
\* component, unless only dots precede it there
SplitExt(p) ==
    LET sep == RFind(p, "/")
        dot == RFind(p, ".")
    IN  IF dot > sep /\ \E i \in (sep + 1)..(dot - 1) : p[i] # "."
        THEN <<SubSeq(p, 1, dot - 1), SubSeq(p, dot, Len(p))>>
        ELSE <<p, <<>>>>

\* os.path.join of two parts
PathJoin(a, b) ==
    IF b # <<>> /\ b[1] = "/" THEN b
    ELSE IF a = <<>> \/ a[Len(a)] = "/" THEN a \o b
    ELSE a \o <<"/">> \o b

\* os.path.dirname
RECURSIVE RStripSlash(_)
RStripSlash(s) ==
    IF s # <<>> /\ s[Len(s)] = "/" THEN RStripSlash(SubSeq(s, 1, Len(s) - 1)) ELSE s

Dirname(p) ==
    LET head == SubSeq(p, 1, RFind(p, "/"))
    IN  IF head # <<>> /\ \E i \in 1..Len(head) : head[i] # "/"
        THEN RStripSlash(head)
        ELSE head

Digits == <<"0", "1", "2", "3", "4", "5", "6", "7", "8", "9">>

\* str(n) for n >= 0
RECURSIVE DecStr(_)
DecStr(n) ==
    IF n < 10 THEN <<Digits[n + 1]>>
    ELSE DecStr(n \div 10) \o <<Digits[(n % 10) + 1]>>

\* a format without the zero padding
NoPad(n) == DecStr(n)

\* format(n, "03d") for n >= 0: zero-padded to at least three characters
RECURSIVE ZeroPad(_, _)
ZeroPad(s, w) == IF Len(s) >= w THEN s ELSE ZeroPad(<<"0">> \o s, w)

Fmt03d(n) == ZeroPad(DecStr(n), 3)

----------------------------------------------------------------------------
(* Host objects.  An object is [type, name, lo, hi, scale, rot, loc, energy]:
   lo and hi are the corners of its object-space bounding box, rot counts
   quarter turns about the Z axis, energy is a light's intensity. *)

V3(x, y, z) == <<x, y, z>>

VZero == V3(FZero, FZero, FZero)

VOne == V3(FOne, FOne, FOne)

VAdd(a, b) == [i \in 1..3 |-> FAdd(a[i], b[i])]

VSub(a, b) == [i \in 1..3 |-> FSub(a[i], b[i])]

\* a rotation by k quarter turns about Z
RotZ(k, v) ==
    CASE k % 4 = 0 -> v
      [] k % 4 = 1 -> V3(FNeg(v[2]), v[1], v[3])
      [] k % 4 = 2 -> V3(FNeg(v[1]), FNeg(v[2]), v[3])
      [] k % 4 = 3 -> V3(v[2], FNeg(v[1]), v[3])

\* obj.bound_box: the eight corners, in the host's order
BoundBox(o) ==
    LET l == o.lo
        h == o.hi
    IN  << V3(l[1], l[2], l[3]), V3(l[1], l[2], h[3]), V3(l[1], h[2], h[3]),
           V3(l[1], h[2], l[3]), V3(h[1], l[2], l[3]), V3(h[1], l[2], h[3]),
           V3(h[1], h[2], h[3]), V3(h[1], h[2], l[3]) >>

\* the point loc + R * S * c
Transform(loc, rot, scale, c) ==
    VAdd(RotZ(rot, [i \in 1..3 |-> FMul(scale[i], c[i])]), loc)

\* obj.matrix_world @ Vector(corner)
MatrixWorldAt(o, c) == Transform(o.loc, o.rot, o.scale, c)

\* obj.dimensions: |scale| times the bounding-box size, per axis
Dimensions(o) == [i \in 1..3 |-> FMul(FAbs(o.scale[i]), FSub(o.hi[i], o.lo[i]))]

RECURSIVE FMaxSeq(_)
FMaxSeq(q) == IF Len(q) = 1 THEN q[1] ELSE FMax(q[1], FMaxSeq(Tail(q)))

RECURSIVE FMinSeq(_)
FMinSeq(q) == IF Len(q) = 1 THEN q[1] ELSE FMin(q[1], FMinSeq(Tail(q)))

\* bpy.ops.object.transform_apply(location, rotation, scale) on o: the chosen
\* parts of the transform are baked into the geometry and reset to identity
TransformApply(o, location, rotation, scale) ==
    LET l  == IF location THEN o.loc ELSE VZero
        r  == IF rotation THEN o.rot ELSE 0
        s  == IF scale THEN o.scale ELSE VOne
        cs == [k \in 1..8 |-> Transform(l, r, s, BoundBox(o)[k])]
    IN  [o EXCEPT !.lo    = [i \in 1..3 |-> FMinSeq([k \in 1..8 |-> cs[k][i]])],
                  !.hi    = [i \in 1..3 |-> FMaxSeq([k \in 1..8 |-> cs[k][i]])],
                  !.loc   = IF location THEN VZero ELSE o.loc,
                  !.rot   = IF rotation THEN 0 ELSE o.rot,
                  !.scale = IF scale THEN VOne ELSE o.scale]

IsMesh(o) == o.type = "MESH"

IsLight(o) == o.type = "LIGHT"

Mesh(name, lo, hi, scale, rot, loc) ==
    [type |-> "MESH", name |-> name, lo |-> lo, hi |-> hi, scale |-> scale,
     rot |-> rot, loc |-> loc, energy |-> 0]

PointLight(name, loc, energy) ==
    [type |-> "LIGHT", name |-> name, lo |-> VZero, hi |-> VZero,
     scale |-> VOne, rot |-> 0, loc |-> loc, energy |-> energy]

CameraObject(name) ==
    [type |-> "CAMERA", name |-> name, lo |-> VZero, hi |-> VZero,
     scale |-> VOne, rot |-> 0, loc |-> VZero, energy |-> 0]

\* bpy.ops.object.join() of meshes with identity transforms: the active mesh
\* receives the geometry of all of them
Join(meshes) ==
    [meshes[1] EXCEPT
        !.lo = [i \in 1..3 |-> FMinSeq([k \in 1..Len(meshes) |-> meshes[k].lo[i]])],
        !.hi = [i \in 1..3 |-> FMaxSeq([k \in 1..Len(meshes) |-> meshes[k].hi[i]])]]

----------------------------------------------------------------------------
(* render_script.py: constants *)

DashDash == <<"-", "-">>

ExtBlend == <<".", "b", "l", "e", "n", "d">>

ExtObj == <<".", "o", "b", "j">>

ExtFbx == <<".", "f", "b", "x">>

ExtStl == <<".", "s", "t", "l">>

ExtGlb == <<".", "g", "l", "b">>

ExtGltf == <<".", "g", "l", "t", "f">>

ExtPng == <<".", "p", "n", "g">>

\* the extensions get_model_path_from_args tries, in order
SearchExts == <<ExtBlend, ExtObj, ExtFbx, ExtStl, ExtGlb, ExtGltf>>

Car == <<"c", "a", "r">>

\* os.path.dirname(os.path.abspath(__file__))
ScriptDir == <<"/", "s">>

ModelDir == PathJoin(ScriptDir, <<"m", "o", "d", "e", "l">>)

OutputRoot == PathJoin(ScriptDir, <<"o", "u", "t", "p", "u", "t">>)

AnglePrefix == <<"a", "n", "g", "l", "e", "_">>

FinalSuffix == <<"_", "f", "i", "n", "a", "l">> \o ExtBlend

CenterEnergy == 200

DiagonalEnergy == 150

FullTurn == 360

MainAngleStep == 30

MainTargetSize == F(2)

MainCameraDistance == F(8)

Msg(m, a) == [msg |-> m, arg |-> a]

----------------------------------------------------------------------------
(* render_script.py: the procedures, as functions of what they read *)

\* the paths <model_dir>/<model_filename><ext> that exist, in list order
RECURSIVE PotentialFiles(_, _, _)
PotentialFiles(model_filename, exts, disk) ==
    IF exts = <<>> THEN <<>>
    ELSE LET test_path == PathJoin(ModelDir, model_filename \o Head(exts))
             rest      == PotentialFiles(model_filename, Tail(exts), disk)
         IN  IF test_path \in disk THEN <<test_path>> \o rest ELSE rest

DefaultModel ==
    [path |-> PathJoin(ModelDir, Car \o ExtBlend), name |-> Car, err |-> "",
     out |-> <<>>]

\* a choice of the last match instead of the first
ChooseLast(potential_files) ==
    IF Len(potential_files) = 1
    THEN [path |-> potential_files[1], err |-> "", out |-> <<>>]
    ELSE IF Len(potential_files) > 1
    THEN [path |-> potential_files[Len(potential_files)], err |-> "",
          out  |-> <<Msg("multiple files", potential_files[1]),
                     Msg("using", potential_files[Len(potential_files)])>>]
    ELSE [path |-> <<>>, err |-> "FileNotFoundError", out |-> <<>>]

\* the path chosen among the potential files, and what is reported
ChoosePotential(potential_files) ==
    IF Len(potential_files) = 1
    THEN [path |-> potential_files[1], err |-> "", out |-> <<>>]
    ELSE IF Len(potential_files) > 1
    THEN [path |-> potential_files[1], err |-> "",
          out  |-> <<Msg("multiple files", potential_files[1]),
                     Msg("using", potential_files[1])>>]
    ELSE [path |-> <<>>, err |-> "FileNotFoundError", out |-> <<>>]

\* get_model_path_from_args: [path, name, err, out]
ModelPathFromArgs(args, disk) ==
    LET idx == IndexOf(args, DashDash)
    IN  IF idx = 0 \/ ~(idx < Len(args))
        THEN DefaultModel
        ELSE LET model_filename == args[idx + 1]
                 chosen ==
                     IF SplitExt(model_filename)[2] = <<>>
                     THEN ChoosePotential(
                              PotentialFiles(model_filename, SearchExts, disk))
                     ELSE [path |-> PathJoin(ModelDir, model_filename),
                           err |-> "", out |-> <<>>]
             IN  [path |-> chosen.path,
                  name |-> SplitExt(Basename(chosen.path))[1],
                  err  |-> chosen.err,
                  out  |-> chosen.out]

\* a dispatch that forgets the .gltf spelling
ImporterNoGltf(file_ext) ==
    CASE file_ext = ExtBlend -> "libraries.load"
      [] file_ext = ExtObj   -> "import_scene.obj"
      [] file_ext = ExtFbx   -> "import_scene.fbx"
      [] file_ext = ExtStl   -> "import_mesh.stl"
      [] file_ext = ExtGlb   -> "import_scene.gltf"
      [] OTHER               -> ""

\* the host importer load_3Dmodel dispatches to for a lower-cased extension,
\* "" for none
Importer(file_ext) ==
    CASE file_ext = ExtBlend -> "libraries.load"
      [] file_ext = ExtObj   -> "import_scene.obj"
      [] file_ext = ExtFbx   -> "import_scene.fbx"
      [] file_ext = ExtStl   -> "import_mesh.stl"
      [] file_ext = ExtGlb   -> "import_scene.gltf"
      [] file_ext = ExtGltf  -> "import_scene.gltf"
      [] OTHER               -> ""

\* what an importer brings into the scene: the mesh-only formats carry meshes,
\* the others every object of the file
Imported(importer, objs) ==
    IF importer \in {"import_scene.obj", "import_mesh.stl"}
    THEN SelectSeq(objs, IsMesh)
    ELSE objs

\* a combine_objects that forgets the type filter
AllIndices(sc) == [i \in 1..Len(sc) |-> i]

\* the indices of the mesh objects of a scene, in scene order
MeshIndices(sc) ==
    LET idx == [i \in 1..Len(sc) |-> i]
    IN  SelectSeq(idx, LAMBDA i : IsMesh(sc[i]))

\* combine_objects: [scene, combined, out]
CombineObjects(sc) ==
    LET imported_objects == MeshIndices(sc)
    IN  IF imported_objects = <<>>
        THEN [scene |-> sc, combined |-> 0, out |-> <<Msg("no mesh", <<>>)>>]
        ELSE LET applied == [k \in 1..Len(imported_objects) |->
                                TransformApply(sc[imported_objects[k]], TRUE, TRUE, TRUE)]
                 joined  == [Join(applied) EXCEPT !.name = "Combined_Object"]
                 first   == imported_objects[1]
                 keep    == SelectSeq([i \in 1..Len(sc) |-> i],
                                      LAMBDA i : i = first \/ ~IsMesh(sc[i]))
             IN  [scene    |-> [k \in 1..Len(keep) |->
                                   IF keep[k] = first THEN joined ELSE sc[keep[k]]],
                  combined |-> IndexOf(keep, first),
                  out      |-> <<>>]

\* a normalisation on the smallest extent
MinDimension(o) == FMinSeq(Dimensions(o))

\* max(dimensions.x, dimensions.y, dimensions.z)
MaxDimension(o) == FMaxSeq(Dimensions(o))

\* target_size / max_dimension
ScaleFactor(t, max_dimension) == FDiv(t, max_dimension)

\* normalize_model_size: [obj, out]
NormalizeModelSize(o, t) ==
    LET max_dimension == MaxDimension(o)
    IN  IF max_dimension = FZero
        THEN [obj |-> o, out |-> <<Msg("original size", <<>>), Msg("zero size", <<>>)>>]
        ELSE LET scale_factor == ScaleFactor(t, max_dimension)
                 scaled == [o EXCEPT !.scale =
                               [i \in 1..3 |-> FMul(o.scale[i], scale_factor)]]
             IN  [obj |-> TransformApply(scaled, FALSE, FALSE, TRUE),
                  out |-> <<Msg("original size", <<>>), Msg("normalized size", <<>>),
                            Msg("scale factor", <<>>)>>]

\* sum(bbox, Vector()) / 8 over the world-space corners of the bounding box
RECURSIVE VSum(_)
VSum(q) == IF q = <<>> THEN VZero ELSE VAdd(VSum(SubSeq(q, 1, Len(q) - 1)), q[Len(q)])

BBoxCenter(o) ==
    LET bbox == [k \in 1..8 |-> MatrixWorldAt(o, BoundBox(o)[k])]
        total == VSum(bbox)
    IN  [i \in 1..3 |-> FDiv(total[i], F(8))]

\* a translation by the centre instead of its negative
MoveBBoxAway(o) == [o EXCEPT !.loc = VAdd(o.loc, BBoxCenter(o))]

\* move_bbox_to_origin: the object after obj.location -= bbox_center
MoveBBoxToOrigin(o) == [o EXCEPT !.loc = VSub(o.loc, BBoxCenter(o))]

DiagonalPositions ==
    << V3(F(-2), F(-2), F(2)), V3(F(2), F(-2), F(2)),
       V3(F(-2), F(2), F(2)),  V3(F(2), F(2), F(2)) >>

DiagonalNames ==
    <<"Diagonal_Light_1", "Diagonal_Light_2", "Diagonal_Light_3", "Diagonal_Light_4">>

\* a rig without its last corner
FourLights ==
    <<PointLight("Center_Light", V3(F(0), F(0), F(2)), CenterEnergy)>>
    \o [i \in 1..3 |->
           PointLight(DiagonalNames[i], DiagonalPositions[i], DiagonalEnergy)]

\* setup_lights: the lights it links, in order
NewLights ==
    <<PointLight("Center_Light", V3(F(0), F(0), F(2)), CenterEnergy)>>
    \o [i \in 1..Len(DiagonalPositions) |->
           PointLight(DiagonalNames[i], DiagonalPositions[i], DiagonalEnergy)]

\* a setup_lights that first removes the lights of the scene
SetupLightsOnly(sc) == SelectSeq(sc, LAMBDA o : ~IsLight(o)) \o NewLights

SetupLights(sc) == sc \o NewLights

\* os.path.join(output_dir, f"angle_{angle_deg:03d}.png")
FramePath(dir, angle) == PathJoin(dir, AnglePrefix \o Fmt03d(angle) \o ExtPng)

\* os.makedirs(d) when d does not exist: d and its missing ancestors
RECURSIVE MakeDirs(_, _)
MakeDirs(disk, d) ==
    IF d \in disk \/ d = <<>> \/ d = <<"/">> THEN disk
    ELSE MakeDirs(disk, Dirname(d)) \cup {d}

----------------------------------------------------------------------------
(* render_script.py: the run, one action per procedure call of __main__ *)

Abort(e) ==
    /\ err' = e
    /\ pc' = "aborted"

\* line 271: model_path, model_name = get_model_path_from_args()
get_model_path_from_args ==
    /\ pc = "args"
    /\ LET r == ModelPathFromArgs(argv, fs)
       IN  /\ trace' = Append(trace, "get_model_path_from_args")
           /\ IF r.err # ""
              THEN /\ Abort(r.err)
                   /\ out' = out \o r.out
                   /\ UNCHANGED <<model_path, model_name>>
              ELSE /\ model_path' = r.path
                   /\ model_name' = r.name
                   /\ out' = out \o r.out \o <<Msg("rendering model", r.path)>>
                   /\ pc' = "load"
                   /\ err' = err
    /\ pre' = scene
    /\ UNCHANGED <<argv, fs, file_objs, scene, combined, target_size, output_dir,
                   angle_step, distance, angle_deg, camera, filepath, frames,
                   saved, imports, ex>>

\* line 275: load_3Dmodel(model_path); the host import may fail
load_3Dmodel ==
    /\ pc = "load"
    /\ trace' = Append(trace, "load_3Dmodel")
    /\ pre' = scene
    /\ LET file_ext == StrLower(SplitExt(model_path)[2])
       IN  \/ /\ model_path \notin fs
              /\ Abort("FileNotFoundError")
              /\ UNCHANGED <<scene, imports, out>>
           \/ /\ model_path \in fs
              /\ Importer(file_ext) = ""
              /\ scene' = <<>>
              /\ Abort("ValueError")
              /\ UNCHANGED <<imports, out>>
           \/ /\ model_path \in fs
              /\ Importer(file_ext) # ""
              /\ scene' = Imported(Importer(file_ext), file_objs)
              /\ imports' = Append(imports, Importer(file_ext))
              /\ out' = Append(out, Msg("imported", model_path))
              /\ pc' = "combine"
              /\ err' = err
           \/ /\ model_path \in fs
              /\ Importer(file_ext) # ""
              /\ scene' = <<>>
              /\ imports' = Append(imports, Importer(file_ext))
              /\ Abort("RuntimeError")
              /\ out' = out
    /\ UNCHANGED <<argv, fs, file_objs, model_path, model_name, combined,
                   target_size, output_dir, angle_step, distance, angle_deg,
                   camera, filepath, frames, saved, ex>>

\* lines 278-281, 303-304: combined_object = combine_objects(), and the test of it
combine_objects ==
    /\ pc = "combine"
    /\ trace' = Append(trace, "combine_objects")
    /\ pre' = scene
    /\ LET r == CombineObjects(scene)
       IN  /\ scene' = r.scene
           /\ combined' = r.combined
           /\ IF r.combined = 0
              THEN /\ out' = out \o r.out \o <<Msg("no combined object", <<>>)>>
                   /\ pc' = "done"
              ELSE /\ out' = out \o r.out
                   /\ pc' = "normalize"
    /\ UNCHANGED <<argv, fs, file_objs, model_path, model_name, target_size,
                   output_dir, angle_step, distance, angle_deg, camera, filepath,
                   frames, saved, err, imports, ex>>

\* line 283: normalize_model_size(combined_object, target_size)
normalize_model_size ==
    /\ pc = "normalize"
    /\ trace' = Append(trace, "normalize_model_size")
    /\ pre' = scene
    /\ LET r == NormalizeModelSize(scene[combined], target_size)
       IN  /\ scene' = [scene EXCEPT ![combined] = r.obj]
           /\ out' = out \o r.out
    /\ pc' = "move"
    /\ UNCHANGED <<argv, fs, file_objs, model_path, model_name, combined,
                   target_size, output_dir, angle_step, distance, angle_deg,
                   camera, filepath, frames, saved, err, imports, ex>>

\* line 286: move_bbox_to_origin(combined_object)
move_bbox_to_origin ==
    /\ pc = "move"
    /\ trace' = Append(trace, "move_bbox_to_origin")
    /\ pre' = scene
    /\ scene' = [scene EXCEPT ![combined] = MoveBBoxToOrigin(scene[combined])]
    /\ pc' = "lights"
    /\ UNCHANGED <<argv, fs, file_objs, model_path, model_name, combined,
                   target_size, output_dir, angle_step, distance, angle_deg,
                   camera, filepath, frames, saved, out, err, imports, ex>>

\* lines 289-293: setup_lights(), then output_dir is computed
setup_lights ==
    /\ pc = "lights"
    /\ trace' = Append(trace, "setup_lights")
    /\ pre' = scene
    /\ scene' = SetupLights(scene)
    /\ output_dir' = PathJoin(OutputRoot, model_name)
    /\ pc' = "render"
    /\ UNCHANGED <<argv, fs, file_objs, model_path, model_name, combined,
                   target_size, angle_step, distance, angle_deg, camera,
                   filepath, frames, saved, out, err, imports, ex>>

\* lines 128-138: render_views is entered: directory, camera, first angle
render_views ==
    /\ pc = "render"
    /\ trace' = Append(trace, "render_views")
    /\ pre' = scene
    /\ fs' = MakeDirs(fs, output_dir)
    /\ scene' = Append(scene, CameraObject("Camera"))
    /\ angle_deg' = 0
    /\ pc' = IF 0 < FullTurn THEN "camera" ELSE "save"
    /\ UNCHANGED <<argv, file_objs, model_path, model_name, combined, target_size,
                   output_dir, angle_step, distance, camera, filepath, frames,
                   saved, out, err, imports, ex>>

\* lines 140-156: the camera is placed for angle_deg and the file name is set
camera_move ==
    /\ pc = "camera"
    /\ camera' = [dist |-> distance, angle |-> angle_deg]
    /\ filepath' = FramePath(output_dir, angle_deg)
    /\ pc' = "frame"
    /\ UNCHANGED <<argv, fs, file_objs, scene, model_path, model_name, combined,
                   target_size, output_dir, angle_step, distance, angle_deg,
                   frames, saved, out, err, trace, imports, pre, ex>>

\* a loop that advances by two steps
SkipAngle(angle, step) == angle + 2 * step

\* the next value of range(0, 360, angle_step) after angle_deg, and where the
\* loop goes from there
NextAngle(angle, step) == angle + step

\* lines 159-160: the host renders the frame, and the loop advances
render_frame ==
    /\ pc = "frame"
    /\ frames' = Append(frames, filepath)
    /\ fs' = fs \cup {filepath}
    /\ out' = Append(out, Msg("rendered", filepath))
    /\ angle_deg' = NextAngle(angle_deg, angle_step)
    /\ pc' = IF NextAngle(angle_deg, angle_step) < FullTurn THEN "camera" ELSE "save"
    /\ UNCHANGED <<argv, file_objs, scene, model_path, model_name, combined,
                   target_size, output_dir, angle_step, distance, camera,
                   filepath, saved, err, trace, imports, pre, ex>>

\* line 159: the host render fails; the exception is not caught
render_fails ==
    /\ pc = "frame"
    /\ Abort("RuntimeError")
    /\ UNCHANGED <<argv, fs, file_objs, scene, model_path, model_name, combined,
                   target_size, output_dir, angle_step, distance, angle_deg,
                   camera, filepath, frames, saved, out, trace, imports, pre, ex>>

\* os.path.join(output_dir, f"{model_name}_final.blend")
OutputFile(dir, name) == PathJoin(dir, name \o FinalSuffix)

\* lines 300-302: save_combined_object(<script_dir>/output, model_name)
save_combined_object ==
    /\ pc = "save"
    /\ trace' = Append(trace, "save_combined_object")
    /\ pre' = scene
    /\ saved' = Append(saved, OutputFile(OutputRoot, model_name))
    /\ fs' = MakeDirs(fs, OutputRoot) \cup {OutputFile(OutputRoot, model_name)}
    /\ out' = out \o <<Msg("saved", OutputFile(OutputRoot, model_name)),
                       Msg("finished", model_name)>>
    /\ pc' = "done"
    /\ UNCHANGED <<argv, file_objs, scene, model_path, model_name, combined,
                   target_size, output_dir, angle_step, distance, angle_deg,
                   camera, filepath, frames, err, imports, ex>>

----------------------------------------------------------------------------
(* example.py *)

\* line 18: image_path = "assets/example_image/car.png"
ImagePath ==
    <<"a", "s", "s", "e", "t", "s", "/", "e", "x", "a", "m", "p", "l", "e", "_",
      "i", "m", "a", "g", "e", "/", "c", "a", "r", ".", "p", "n", "g">>

\* line 21: base_filename = osp.splitext(osp.basename(image_path))[0]
BaseFilename(image_path) == SplitExt(Basename(image_path))[1]

SuffixGs == <<"_", "g", "s", ".", "m", "p", "4">>

SuffixRf == <<"_", "r", "f", ".", "m", "p", "4">>

SuffixMesh == <<"_", "m", "e", "s", "h", ".", "m", "p", "4">>

SuffixGlb == <<".", "g", "l", "b">>

SuffixPly == <<".", "p", "l", "y">>

\* os.path.abspath of a path, seen from the working directory cwd
AbsPath(cwd, p) == PathJoin(cwd, p)

\* an export beside the input image
ExportBeside(cwd, suffix) ==
    PathJoin(Dirname(AbsPath(cwd, ImagePath)), BaseFilename(ImagePath) \o suffix)

\* the file a step writes: f"{base_filename}<suffix>", resolved by the host
\* against the working directory
ExportPath(cwd, suffix) == AbsPath(cwd, BaseFilename(ImagePath) \o suffix)

ExIdle ==
    [pc |-> "idle", cwd |-> <<>>, exists |-> FALSE, lens |-> <<0, 0, 0>>,
     files |-> <<>>, err |-> ""]

run_vars == <<argv, fs, file_objs, scene, model_path, model_name, combined,
              target_size, output_dir, angle_step, distance, angle_deg, camera,
              filepath, frames, saved, out, err, pc, trace, imports, pre>>

ExAbort(e) == ex' = [ex EXCEPT !.pc = "aborted", !.err = e]

\* lines 14-15: the pipeline is loaded
ex_from_pretrained ==
    /\ ex.pc = "pipeline"
    /\ ex' = [ex EXCEPT !.pc = "open"]
    /\ UNCHANGED run_vars

\* line 24: image = Image.open(image_path)
ex_open ==
    /\ ex.pc = "open"
    /\ IF ex.exists THEN ex' = [ex EXCEPT !.pc = "run"]
                    ELSE ExAbort("FileNotFoundError")
    /\ UNCHANGED run_vars

\* lines 27-39: outputs = pipeline.run(image, seed=1); the model holds the
\* lengths of outputs['gaussian'], outputs['radiance_field'], outputs['mesh']
ex_run ==
    /\ ex.pc = "run"
    /\ \E g \in 0..MaxOut, r \in 0..MaxOut, m \in 0..MaxOut :
          ex' = [ex EXCEPT !.pc = "gs", !.lens = <<g, r, m>>]
    /\ UNCHANGED run_vars

\* a step that reads index 0 of the lists `needs` and writes one file
ExExport(at, needs, suffix, next) ==
    /\ ex.pc = at
    /\ IF \E k \in needs : ex.lens[k] = 0
       THEN ExAbort("IndexError")
       ELSE ex' = [ex EXCEPT !.pc = next,
                             !.files = Append(@, ExportPath(ex.cwd, suffix))]
    /\ UNCHANGED run_vars

\* lines 46-47
ex_gs == ExExport("gs", {1}, SuffixGs, "rf")

\* lines 48-49
ex_rf == ExExport("rf", {2}, SuffixRf, "mesh")

\* lines 50-51
ex_mesh == ExExport("mesh", {3}, SuffixMesh, "glb")

\* lines 54-61
ex_glb == ExExport("glb", {1, 3}, SuffixGlb, "ply")

\* line 64
ex_ply == ExExport("ply", {1}, SuffixPly, "done")

----------------------------------------------------------------------------
(* Inputs *)

Blender == <<"b">>

Cup == <<"c", "u", "p">>

ExtTxt == <<".", "t", "x", "t">>

ExtObjUpper == <<".", "O", "B", "J">>

ArgNames == {Car, Cup, Car \o ExtObj, Car \o ExtObjUpper, Car \o ExtTxt}

ArgvSet ==
    {<<Blender>>, <<Blender, DashDash>>}
    \cup {<<Blender, DashDash, n>> : n \in ArgNames}

FilePaths ==
    {PathJoin(ModelDir, Car \o e) :
        e \in {ExtBlend, ExtObj, ExtFbx, ExtStl, ExtGlb, ExtGltf, ExtTxt, ExtObjUpper}}

Listings == {l \in SUBSET FilePaths : Cardinality(l) <= MaxFiles}

Tenth == FDiv(F(1), F(10))

Third == FDiv(F(1), F(3))

MeshA == Mesh("A", V3(F(-1), F(-1), FZero), V3(F(1), F(2), FDiv(F(11), F(3))),
              VOne, 0, VZero)

MeshB == Mesh("B", V3(Tenth, F(-3), F(-1)), V3(F(1), FDiv(F(-11), F(4)), Third),
              V3(FDiv(F(3), F(2)), FDiv(F(3), F(2)), FDiv(F(3), F(2))), 1,
              V3(FDiv(F(5), F(2)), F(-7), Tenth))

MeshPoint == Mesh("P", V3(F(1), F(1), F(1)), V3(F(1), F(1), F(1)), VOne, 0, VZero)

LightL == PointLight("Sun", V3(F(4), F(1), F(6)), 1000)

FileContents ==
    {<<>>, <<MeshA>>, <<MeshB, MeshA>>, <<LightL>>, <<LightL, MeshA>>, <<MeshPoint>>}

\* the scene the host starts with
DefaultScene ==
    <<Mesh("Cube", V3(F(-1), F(-1), F(-1)), V3(F(1), F(1), F(1)), VOne, 0, VZero),
      PointLight("Light", V3(F(4), F(1), F(6)), 1000),
      CameraObject("Camera")>>

PriorScenes == {<<>>, DefaultScene}

Intervals ==
    {<<FZero, FZero>>, <<FZero, FDiv(F(11), F(3))>>, <<Tenth, FDiv(F(41), F(8))>>,
     <<F(-3), FDiv(F(-11), F(4))>>}

Scales ==
    {VOne, V3(FDiv(F(3), F(2)), FDiv(F(3), F(2)), FDiv(F(3), F(2))),
     V3(F(-2), FOne, Third)}

Locations ==
    {VZero, V3(FDiv(F(5), F(2)), F(-7), Tenth), V3(Third, FDiv(F(1), F(4)), FDiv(F(-11), F(8)))}

Targets == {F(2), F(3), FDiv(F(5), F(2))}

Objects ==
    {Mesh("Combined_Object", V3(x[1], y[1], z[1]), V3(x[2], y[2], z[2]), s, r, l) :
        x \in Intervals, y \in Intervals, z \in Intervals,
        s \in Scales, r \in 0..3, l \in Locations}

\* the angle steps for which range(0, 360, step) has at most MaxFrames values
AngleSteps ==
    {st \in 1..(FullTurn + MainAngleStep) : (FullTurn + st - 1) \div st <= MaxFrames}

Cwds == {<<"/", "w">>, <<"/">>, <<"/", "w", "/", "a", "s", "s", "e", "t", "s">>}

----------------------------------------------------------------------------
(* Specifications *)

Start(args, disk, objs, sc, comb, t, dir, step, dist, at) ==
    /\ argv = args
    /\ fs = disk
    /\ file_objs = objs
    /\ scene = sc
    /\ model_path = <<>>
    /\ model_name = <<>>
    /\ combined = comb
    /\ target_size = t
    /\ output_dir = dir
    /\ angle_step = step
    /\ distance = dist
    /\ angle_deg = 0
    /\ camera = [dist |-> FZero, angle |-> 0]
    /\ filepath = <<>>
    /\ frames = <<>>
    /\ saved = <<>>
    /\ out = <<>>
    /\ err = ""
    /\ pc = at
    /\ trace = <<>>
    /\ imports = <<>>
    /\ pre = sc

\* the run of render_script.py
Init ==
    /\ \E args \in ArgvSet, disk \in Listings, objs \in FileContents,
          sc \in PriorScenes :
          Start(args, disk, objs, sc, 0, MainTargetSize, <<>>, MainAngleStep,
                MainCameraDistance, "args")
    /\ ex = ExIdle

Next ==
    \/ get_model_path_from_args
    \/ load_3Dmodel
    \/ combine_objects
    \/ normalize_model_size
    \/ move_bbox_to_origin
    \/ setup_lights
    \/ render_views
    \/ camera_move
    \/ render_frame
    \/ render_fails
    \/ save_combined_object

Spec == Init /\ [][Next]_vars

\* normalize_model_size and move_bbox_to_origin on any object
InitGeom ==
    /\ \E o \in Objects, t \in Targets, at \in {"normalize", "move"} :
          Start(<<>>, {}, <<>>, <<o>>, 1, t, <<>>, MainAngleStep,
                MainCameraDistance, at)
    /\ ex = ExIdle

NextGeom ==
    \/ normalize_model_size
    \/ move_bbox_to_origin

SpecGeom == InitGeom /\ [][NextGeom]_vars

\* render_views with any angle_step, distance and output directory
InitRender ==
    /\ \E st \in AngleSteps, d \in {F(5), F(8)},
          dir \in {PathJoin(OutputRoot, Car), <<"o">>}, made \in BOOLEAN :
          Start(<<>>, IF made THEN {dir} ELSE {}, <<>>, <<>>, 0, MainTargetSize,
                dir, st, d, "render")
    /\ ex = ExIdle

NextRender ==
    \/ render_views
    \/ camera_move
    \/ render_frame
    \/ render_fails

SpecRender == InitRender /\ [][NextRender]_vars

\* the run of example.py
InitExample ==
    /\ Start(<<>>, {}, <<>>, <<>>, 0, MainTargetSize, <<>>, MainAngleStep,
             MainCameraDistance, "idle")
    /\ \E c \in Cwds, e \in BOOLEAN :
          ex = [ExIdle EXCEPT !.pc = "pipeline", !.cwd = c, !.exists = e]

NextExample ==
    \/ ex_from_pretrained
    \/ ex_open
    \/ ex_run
    \/ ex_gs
    \/ ex_rf
    \/ ex_mesh
    \/ ex_glb
    \/ ex_ply

SpecExample == InitExample /\ [][NextExample]_vars

----------------------------------------------------------------------------
(* Properties: shared vocabulary *)

Called(name) == \E i \in 1..Len(trace) : trace[i] = name

JustReturned(name) == trace # <<>> /\ trace[Len(trace)] = name

Said(m) == \E i \in 1..Len(out) : out[i].msg = m

\* the objects the import of this run brought into the scene
ImportedScene == Imported(imports[1], file_objs)

Lights(sc) == SelectSeq(sc, IsLight)

\* |x| <= c * 2^-Prec * mag, for floats x and mag and an integer c
Within(x, c, mag) == Cmp(<<Abs(x[1]), x[2] + Prec>>, Norm(c * mag[1], mag[2])) <= 0

\* the largest absolute value among the floats of a non-empty sequence
AbsMax(q) ==
    LET vals == {FAbs(q[k]) : k \in 1..Len(q)}
    IN  CHOOSE x \in vals : \A y \in vals : FLe(y, x)

\* the angle a frame file name states: angle_<three digits>.png, -1 otherwise
FrameAngle(path) ==
    LET n == Basename(path)
    IN  IF /\ Len(n) = Len(AnglePrefix) + 3 + Len(ExtPng)
           /\ SubSeq(n, 1, Len(AnglePrefix)) = AnglePrefix
           /\ SubSeq(n, Len(AnglePrefix) + 4, Len(n)) = ExtPng
           /\ \A k \in 1..3 : IndexOf(Digits, n[Len(AnglePrefix) + k]) > 0
        THEN 100 * (IndexOf(Digits, n[Len(AnglePrefix) + 1]) - 1)
             + 10 * (IndexOf(Digits, n[Len(AnglePrefix) + 2]) - 1)
             + (IndexOf(Digits, n[Len(AnglePrefix) + 3]) - 1)
        ELSE -1

----------------------------------------------------------------------------
(* C1 *)

\* the import of the run brought no mesh, and combine_objects has been called
NoMeshCase ==
    /\ Called("combine_objects")
    /\ \A i \in 1..Len(ImportedScene) : ImportedScene[i].type # "MESH"

\* C1: when the scene holds no mesh object after the import, combine_objects
\* returns None without raising and the run ends there: normalize_model_size,
\* move_bbox_to_origin, setup_lights, render_views and save_combined_object
\* are never called, and no light, camera, frame or scene file is produced.
C1_NoMeshStopsRun ==
    NoMeshCase =>
        /\ combined = 0
        /\ err = ""
        /\ pc = "done"
        /\ trace = <<"get_model_path_from_args", "load_3Dmodel", "combine_objects">>
        /\ scene = ImportedScene
        /\ frames = <<>>
        /\ saved = <<>>
        /\ Said("no mesh")

C1_Witness ==
    /\ NoMeshCase
    /\ pc = "done"
    /\ scene = <<LightL>>

----------------------------------------------------------------------------
(* C2 *)

\* C2: for an angle_step that divides 360, a call of render_views that has
\* returned rendered exactly 360 / angle_step frames, the i-th of them to
\* <output_dir>/angle_<(i-1) * angle_step, three digits>.png, so that the
\* names are pairwise distinct, in increasing angle order and below 360.
C2_FramesOfRenderViews ==
    (pc = "save" /\ FullTurn % angle_step = 0) =>
        /\ Len(frames) = FullTurn \div angle_step
        /\ \A i \in 1..Len(frames) :
              /\ FrameAngle(frames[i]) = (i - 1) * angle_step
              /\ FrameAngle(frames[i]) < FullTurn
              /\ Dirname(frames[i]) = output_dir
              /\ frames[i] \in fs
        /\ \A i, j \in 1..Len(frames) : i < j => frames[i] # frames[j]

C2_Witness ==
    /\ pc = "save"
    /\ angle_step = 45
    /\ Len(frames) = 8
    /\ Basename(frames[2]) = AnglePrefix \o <<"0", "4", "5">> \o ExtPng

----------------------------------------------------------------------------
(* C3 *)

\* the run was given a model filename without an extension
BareNameCase ==
    /\ Called("get_model_path_from_args")
    /\ IndexOf(argv, DashDash) > 0
    /\ IndexOf(argv, DashDash) < Len(argv)
    /\ RFind(argv[IndexOf(argv, DashDash) + 1], ".") = 0

\* the positions in the extension list whose file exists in the model directory
Matches ==
    {k \in 1..Len(SearchExts) :
        ModelDir \o <<"/">> \o argv[IndexOf(argv, DashDash) + 1] \o SearchExts[k] \in fs}

\* C3: for a filename without extension the model directory is searched over
\* .blend, .obj, .fbx, .stl, .glb, .gltf in that order: no match fails with
\* FileNotFound (no fallback to the default model), one match is returned
\* without a notice, several matches return the first in list order with an
\* ambiguity notice; the notice is emitted exactly when there are several.
C3_BareNameResolution ==
    BareNameCase =>
        /\ Matches = {} =>
              /\ err = "FileNotFoundError"
              /\ pc = "aborted"
              /\ model_path = <<>>
              /\ trace = <<"get_model_path_from_args">>
        /\ Matches # {} =>
              /\ \E k \in Matches :
                    /\ \A j \in Matches : k <= j
                    /\ model_path = ModelDir \o <<"/">>
                                    \o argv[IndexOf(argv, DashDash) + 1] \o SearchExts[k]
              /\ Called("load_3Dmodel") \/ pc = "load"
        /\ Said("multiple files") <=> Cardinality(Matches) > 1

C3_Witness ==
    /\ BareNameCase
    /\ fs = {PathJoin(ModelDir, Car \o ExtObj), PathJoin(ModelDir, Car \o ExtFbx)}
    /\ model_path = PathJoin(ModelDir, Car \o ExtObj)
    /\ Said("multiple files")

----------------------------------------------------------------------------
(* C4 *)

\* the lower-cased extension of model_path is one of the six supported ones
Supported ==
    \E e \in {ExtBlend, ExtObj, ExtFbx, ExtStl, ExtGlb, ExtGltf, ExtObjUpper} :
        /\ Len(model_path) > Len(e)
        /\ SubSeq(model_path, Len(model_path) - Len(e) + 1, Len(model_path)) = e

\* the importer that belongs to the extension of model_path
ExpectedImporter ==
    LET ends(e) == SubSeq(model_path, Len(model_path) - Len(e) + 1, Len(model_path)) = e
    IN  CASE ends(ExtBlend) -> "libraries.load"
          [] ends(ExtObj) \/ ends(ExtObjUpper) -> "import_scene.obj"
          [] ends(ExtFbx) -> "import_scene.fbx"
          [] ends(ExtStl) -> "import_mesh.stl"
          [] ends(ExtGlb) \/ ends(ExtGltf) -> "import_scene.gltf"

\* C4: load_3Dmodel fails with FileNotFound when the path does not exist, the
\* scene being left as it was; it fails with UnsupportedFormat when the path
\* exists and its lower-cased extension is none of the six, the scene being
\* already reset; otherwise the scene is reset and exactly one importer, the
\* one of the extension, is invoked.
C4_LoadDispatch ==
    JustReturned("load_3Dmodel") =>
        /\ model_path \notin fs =>
              /\ err = "FileNotFoundError"
              /\ scene = pre
              /\ imports = <<>>
        /\ (model_path \in fs /\ ~Supported) =>
              /\ err = "ValueError"
              /\ scene = <<>>
              /\ imports = <<>>
        /\ (model_path \in fs /\ Supported) =>
              /\ imports = <<ExpectedImporter>>
              /\ err \in {"", "RuntimeError"}
              /\ err = "" => scene = ImportedScene
              /\ err # "" => scene = <<>>

C4_Witness ==
    /\ JustReturned("load_3Dmodel")
    /\ err = "ValueError"
    /\ pre = DefaultScene
    /\ scene = <<>>

----------------------------------------------------------------------------
(* C5, C6 *)

\* the five lights of the rig, written out
RigCenter == PointLight("Center_Light", V3(F(0), F(0), F(2)), 200)

RigCorners ==
    {[type |-> "LIGHT", loc |-> V3(F(x), F(y), F(2)), energy |-> 150] :
        x \in {-2, 2}, y \in {-2, 2}}

IsRig(ls) ==
    /\ Len(ls) = 5
    /\ ls[1].type = "LIGHT" /\ ls[1].loc = RigCenter.loc /\ ls[1].energy = 200
    /\ {[type |-> ls[k].type, loc |-> ls[k].loc, energy |-> ls[k].energy] : k \in 2..5}
          = RigCorners

\* C5 as stated: after setup_lights the lights of the scene are exactly the
\* five lights of the rig, whatever the import placed in the scene.
C5_Original == Called("setup_lights") => IsRig(Lights(scene))

\* C5 as amended: after setup_lights the lights of the scene are the lights
\* the import brought in, followed by the five lights of the rig at their
\* fixed positions and intensities; they are exactly the five when the import
\* brought no light.
C5_LightsAfterSetup ==
    Called("setup_lights") =>
        /\ Len(Lights(scene)) = Len(Lights(ImportedScene)) + 5
        /\ SubSeq(Lights(scene), 1, Len(Lights(ImportedScene))) = Lights(ImportedScene)
        /\ IsRig(SubSeq(Lights(scene), Len(Lights(ImportedScene)) + 1,
                        Len(Lights(scene))))
        /\ Lights(ImportedScene) = <<>> => IsRig(Lights(scene))

C5_Witness ==
    /\ Called("setup_lights")
    /\ Len(Lights(scene)) = 6
    /\ Lights(scene)[1] = LightL

\* C6 as stated: one call of setup_lights adds six lights to the scene.
C6_Original ==
    (JustReturned("setup_lights") /\ pc = "render") =>
        Len(Lights(scene)) = Len(Lights(pre)) + 6

\* C6 as amended: one call of setup_lights adds five point lights to the
\* scene, one at (0,0,2) with intensity 200 and one at each of the four sign
\* combinations of (+-2,+-2,2) with intensity 150, and changes nothing else.
C6_FiveLightsPerCall ==
    (JustReturned("setup_lights") /\ pc = "render") =>
        /\ Len(scene) = Len(pre) + 5
        /\ SubSeq(scene, 1, Len(pre)) = pre
        /\ IsRig(SubSeq(scene, Len(pre) + 1, Len(scene)))
        /\ Len(Lights(scene)) = Len(Lights(pre)) + 5

C6_Witness ==
    /\ JustReturned("setup_lights")
    /\ pc = "render"
    /\ Len(pre) = 1
    /\ Len(scene) = 6

----------------------------------------------------------------------------
(* C7 *)

\* normalize_model_size has returned: the object before and after, the
\* largest extent before
NormBefore == pre[combined]

NormAfter == scene[combined]

NormM == FMaxSeq(Dimensions(NormBefore))

Normalized == JustReturned("normalize_model_size") /\ pc = "move"

\* the largest coordinate magnitude the scaled geometry and the target reach
NormMag == AbsMax(<<target_size>> \o NormAfter.lo \o NormAfter.hi)

BakedAndInPlace ==
    /\ NormAfter.scale = VOne
    /\ NormAfter.rot = NormBefore.rot
    /\ NormAfter.loc = NormBefore.loc

ZeroLeftAlone ==
    NormM = FZero =>
        /\ NormAfter = NormBefore
        /\ Said("zero size")
        /\ ~Said("scale factor")

\* C7 as stated: when the largest extent m is not zero, the largest extent
\* after the call equals target_size, every extent is the old one times
\* target_size / m, and the scale is baked; when m is zero nothing changes.
C7_Original ==
    Normalized =>
        /\ ZeroLeftAlone
        /\ NormM # FZero =>
              /\ BakedAndInPlace
              /\ FMaxSeq(Dimensions(NormAfter)) = target_size
              /\ \A i \in 1..3 :
                    Dimensions(NormAfter)[i]
                       = FMul(Dimensions(NormBefore)[i], FDiv(target_size, NormM))

\* C7 as amended: the same, with "equals" read up to floating-point
\* rounding: the largest extent after the call differs from target_size, and
\* every extent from the old one times target_size / m, by at most
\* 8 * 2^-Prec times the largest coordinate magnitude involved.
C7_NormalizedWithinRounding ==
    Normalized =>
        /\ ZeroLeftAlone
        /\ NormM # FZero =>
              /\ BakedAndInPlace
              /\ Within(FSub(FMaxSeq(Dimensions(NormAfter)), target_size), 8, NormMag)
              /\ \A i \in 1..3 :
                    Within(FSub(Dimensions(NormAfter)[i],
                                FMul(Dimensions(NormBefore)[i],
                                     FDiv(target_size, NormM))),
                           8, NormMag)

C7_Witness ==
    /\ Normalized
    /\ NormM # FZero
    /\ NormBefore.scale = VOne
    /\ target_size = F(2)
    /\ FMaxSeq(Dimensions(NormAfter)) # target_size

----------------------------------------------------------------------------
(* C8 *)

Moved == JustReturned("move_bbox_to_origin") /\ pc = "lights"

MoveBefore == pre[combined]

MoveAfter == scene[combined]

\* the largest coordinate magnitude of the object's world-space corners and
\* location before the call
MoveMag ==
    AbsMax(MoveBefore.loc
           \o Flatten([k \in 1..8 |-> MatrixWorldAt(MoveBefore, BoundBox(MoveBefore)[k])]))

GeometryKept ==
    /\ MoveAfter.lo = MoveBefore.lo
    /\ MoveAfter.hi = MoveBefore.hi
    /\ MoveAfter.rot = MoveBefore.rot
    /\ MoveAfter.scale = MoveBefore.scale

\* C8 as stated: after move_bbox_to_origin the average of the eight
\* world-space corners of the bounding box is the origin, and extents,
\* rotation and scale are unchanged.
C8_Original ==
    Moved => (BBoxCenter(MoveAfter) = VZero /\ GeometryKept)

\* C8 as amended: after move_bbox_to_origin the average of the eight
\* world-space corners of the bounding box is the origin up to floating-point
\* rounding, each coordinate of it being at most 32 * 2^-Prec times the
\* largest coordinate magnitude before the call; extents, rotation and scale
\* are unchanged.
C8_CenteredWithinRounding ==
    Moved =>
        /\ \A i \in 1..3 : Within(BBoxCenter(MoveAfter)[i], 32, MoveMag)
        /\ GeometryKept

C8_Witness ==
    /\ Moved
    /\ MoveBefore.loc # VZero
    /\ BBoxCenter(MoveBefore) # VZero
    /\ BBoxCenter(MoveAfter) # VZero

----------------------------------------------------------------------------
(* C9 *)

CarGsMp4 == <<"c", "a", "r", "_", "g", "s", ".", "m", "p", "4">>

CarRfMp4 == <<"c", "a", "r", "_", "r", "f", ".", "m", "p", "4">>

CarMeshMp4 == <<"c", "a", "r", "_", "m", "e", "s", "h", ".", "m", "p", "4">>

CarGlb == <<"c", "a", "r", ".", "g", "l", "b">>

CarPly == <<"c", "a", "r", ".", "p", "l", "y">>

\* the five files, named from the base name of the input image
FiveNamedFiles ==
    /\ Len(ex.files) = 5
    /\ [k \in 1..5 |-> Basename(ex.files[k])]
          = <<CarGsMp4, CarRfMp4, CarMeshMp4, CarGlb, CarPly>>

\* the directory that holds the input image
ImageDir == ex.cwd \o (IF ex.cwd[Len(ex.cwd)] = "/" THEN <<>> ELSE <<"/">>)
            \o <<"a", "s", "s", "e", "t", "s", "/", "e", "x", "a", "m", "p", "l", "e",
                 "_", "i", "m", "a", "g", "e">>

\* C9 as stated: a complete run of example.py writes exactly five files,
\* three .mp4, one .glb and one .ply, named from the base name of the input
\* image, each in the directory that holds the input image.
C9_Original ==
    ex.pc = "done" =>
        /\ FiveNamedFiles
        /\ \A k \in 1..Len(ex.files) : Dirname(ex.files[k]) = ImageDir

\* C9 as amended: a complete run of example.py writes exactly five files,
\* three .mp4, one .glb and one .ply, named from the base name of the input
\* image, each in the current working directory (the names carry no
\* directory), which is not the directory that holds the input image.
C9_FiveFilesInCwd ==
    ex.pc = "done" =>
        /\ FiveNamedFiles
        /\ \A k \in 1..Len(ex.files) :
              /\ Dirname(ex.files[k]) = ex.cwd
              /\ Dirname(ex.files[k]) # ImageDir

C9_Witness ==
    /\ ex.pc = "done"
    /\ ex.cwd = <<"/", "w">>
    /\ Len(ex.files) = 5

----------------------------------------------------------------------------
(* C10 *)

Order ==
    <<"get_model_path_from_args", "load_3Dmodel", "combine_objects",
      "normalize_model_size", "move_bbox_to_origin", "setup_lights",
      "render_views", "save_combined_object">>

\* the angles of the frames written so far are 0, angle_step, ... in order
FramesAscending ==
    \A i \in 1..Len(frames) : FrameAngle(frames[i]) = (i - 1) * angle_step

OrderInv ==
    /\ Len(trace) <= Len(Order)
    /\ trace = SubSeq(Order, 1, Len(trace))
    /\ FramesAscending
    /\ Len(frames) > 0 => Called("render_views")
    \* in the loop: every smaller angle is written, no larger one, and the
    \* camera stands at the angle of the frame being rendered
    /\ pc \in {"camera", "frame"} => Len(frames) * angle_step = angle_deg
    /\ pc = "frame" => (camera.angle = angle_deg /\ camera.dist = distance
                        /\ FrameAngle(filepath) = angle_deg)
    /\ pc = "camera" /\ Len(frames) > 0 =>
          camera.angle = FrameAngle(frames[Len(frames)])
    \* the save comes after all the frames
    /\ (Called("save_combined_object") \/ saved # <<>>) =>
          (Len(frames) * angle_step = FullTurn /\ Len(saved) = 1 /\ err = "")
    \* a failed render: the frames below the failing angle, and no save
    /\ (err = "RuntimeError" /\ Called("render_views")) =>
          /\ pc = "aborted"
          /\ Len(frames) * angle_step = angle_deg
          /\ angle_deg < FullTurn
          /\ saved = <<>>
          /\ ~Called("save_combined_object")

\* an aborted run does nothing more
AbortIsFinal ==
    pc = "aborted" => (pc' = "aborted" /\ frames' = frames /\ saved' = saved
                       /\ scene' = scene /\ fs' = fs)

\* C10: in every run the procedures are entered in the order import,
\* consolidation, normalization, recentering, light setup, rendering, save;
\* the frames are rendered in strictly ascending angle order, each before the
\* camera is moved for the next; the scene is saved only after all
\* 360 / angle_step frames; a failed render aborts the run with the frames of
\* the smaller angles written, no later frame and no save, ever.
C10_StepOrder == []OrderInv /\ [][AbortIsFinal]_vars

C10_Witness ==
    /\ err = "RuntimeError"
    /\ Called("render_views")
    /\ Len(frames) = 5
    /\ angle_deg = 150

====
